---- MODULE Spec2Model ----
(***************************************************************************)
(* wend: deferred path expressions with late binding.                      *)
(*                                                                         *)
(* Expression objects live in `heap` (a node's index is its identity, as   *)
(* id(self) is in the source); the smart constructors, required_params and *)
(* resolve are translated from src/src/wend/__init__.py.  Strings are      *)
(* sequences of one-character strings, concrete paths are what             *)
(* pathlib.PurePosixPath computes from them.                               *)
(***************************************************************************)
EXTENDS Integers, Sequences, FiniteSets, TLC

VARIABLES heap, last, rels, calls

vars == <<heap, last, rels, calls>>

(***************************************************************************)
(* Bounds of the exploration.                                              *)
(***************************************************************************)
\* expression objects the client holds under Spec
MaxNodes == 3
\* expression objects and RelativePath objects the client holds under SpecRel
MaxRelNodes == 2
MaxRels == 2
\* expression objects the clients hold under SpecConc
MaxConcNodes == 2

(***************************************************************************)
(* Values: Python str, int and pathlib.Path, tagged by type.               *)
(***************************************************************************)
StrV(s) == [t |-> "str", s |-> s]
IntV(n) == [t |-> "int", n |-> n]
PathV(root, tail) == [t |-> "Path", root |-> root, tail |-> tail]

\* outcome of a call that may raise: exc = "None" when it returned val
Ok(v) == [exc |-> "None", val |-> v]
Raise(e) == [exc |-> e]
Raised(r) == r.exc # "None"

(***************************************************************************)
(* str helpers.                                                            *)
(***************************************************************************)
Sep == "/"
Dot == "."

RECURSIVE Concat(_)
Concat(ss) == IF ss = <<>> THEN <<>> ELSE Head(ss) \o Concat(Tail(ss))

StartsWith(s, c) == Len(s) > 0 /\ s[1] = c
EndsWith(s, c) == Len(s) > 0 /\ s[Len(s)] = c

\* s.rfind(c): index of the last c (1-based), 0 when there is none
RFind(s, c) ==
  IF \E i \in 1..Len(s) : s[i] = c
  THEN CHOOSE i \in 1..Len(s) : s[i] = c /\ \A j \in (i+1)..Len(s) : s[j] # c
  ELSE 0

\* s.lstrip(c)
RECURSIVE LStrip(_, _)
LStrip(s, c) == IF StartsWith(s, c) THEN LStrip(Tail(s), c) ELSE s

\* s.split(c)
RECURSIVE SplitFrom(_, _, _)
SplitFrom(s, c, cur) ==
  IF s = <<>> THEN <<cur>>
  ELSE IF Head(s) = c THEN <<cur>> \o SplitFrom(Tail(s), c, <<>>)
  ELSE SplitFrom(Tail(s), c, Append(cur, Head(s)))

Split(s, c) == SplitFrom(s, c, <<>>)

\* c.join(parts)
RECURSIVE StrJoin(_, _)
StrJoin(parts, c) ==
  IF parts = <<>> THEN <<>>
  ELSE IF Len(parts) = 1 THEN parts[1]
  ELSE parts[1] \o <<c>> \o StrJoin(Tail(parts), c)

Digits == <<"0", "1", "2", "3", "4", "5", "6", "7", "8", "9">>

\* str(n) for n >= 0
RECURSIVE DecimalOf(_)
DecimalOf(n) ==
  IF n < 10 THEN <<Digits[n + 1]>>
  ELSE Append(DecimalOf(n \div 10), Digits[(n % 10) + 1])

RECURSIVE ZeroPad(_, _)
ZeroPad(s, width) == IF Len(s) >= width THEN s ELSE ZeroPad(<<"0">> \o s, width)

(***************************************************************************)
(* pathlib.PurePosixPath, as the source uses it.                           *)
(***************************************************************************)
\* posixpath.splitroot: the number of leading slashes kept as the root
\* (exactly two leading slashes are kept, three or more collapse to one)
RootOf(s) ==
  IF ~StartsWith(s, Sep) THEN 0
  ELSE IF Len(s) >= 2 /\ s[2] = Sep /\ ~(Len(s) >= 3 /\ s[3] = Sep) THEN 2
  ELSE 1

\* the parsed form of a str: empty and "." components are dropped
ParsePath(s) ==
  PathV(RootOf(s), SelectSeq(Split(s, Sep), LAMBDA x : x # <<>> /\ x # <<Dot>>))

\* str(path)
Str(p) ==
  LET r == [i \in 1..p.root |-> Sep]
  IN  IF p.root = 0 /\ p.tail = <<>> THEN <<Dot>>
      ELSE r \o StrJoin(p.tail, Sep)

\* posixpath.join(a, b)
PosixJoin(a, b) ==
  IF StartsWith(b, Sep) THEN b
  ELSE IF a = <<>> \/ EndsWith(a, Sep) THEN a \o b
  ELSE a \o <<Sep>> \o b

\* Path(value): a str is parsed, a Path is taken over, anything else is a TypeError
Path(v) ==
  IF v.t = "str" THEN Ok(ParsePath(v.s))
  ELSE IF v.t = "Path" THEN Ok(ParsePath(Str(v)))
  ELSE Raise("TypeError")

\* path / key, key a str or a Path
Truediv(p, key) ==
  IF key.t = "str" THEN Ok(ParsePath(PosixJoin(Str(p), key.s)))
  ELSE IF key.t = "Path" THEN Ok(ParsePath(PosixJoin(Str(p), Str(key))))
  ELSE Raise("TypeError")

\* path.parent: a path without components is its own parent
PathParent(p) ==
  IF p.tail = <<>> THEN p ELSE PathV(p.root, SubSeq(p.tail, 1, Len(p.tail) - 1))

\* path.name
PathName(p) == IF p.tail = <<>> THEN <<>> ELSE p.tail[Len(p.tail)]

\* path.with_name(name)
PathWithName(p, name) ==
  IF name = <<>> \/ (\E i \in 1..Len(name) : name[i] = Sep) \/ name = <<Dot>>
  THEN Raise("ValueError")
  ELSE IF p.tail = <<>> THEN Raise("ValueError")
  ELSE Ok(PathV(p.root, [p.tail EXCEPT ![Len(p.tail)] = name]))

\* path.stem: the name without its last suffix; a stem has a non-dot character
PathStem(p) ==
  LET name == PathName(p)
      i == RFind(name, Dot)
      stem == SubSeq(name, 1, i - 1)
  IN  IF i # 0 /\ LStrip(stem, Dot) # <<>> THEN stem ELSE name

\* path.with_suffix(suffix)
PathWithSuffix(p, suffix) ==
  IF PathStem(p) = <<>> THEN Raise("ValueError")
  ELSE IF suffix # <<>> /\ ~StartsWith(suffix, Dot) THEN Raise("ValueError")
  ELSE PathWithName(p, PathStem(p) \o suffix)

\* format(value, format_spec) for the specifiers "" and "03d"
Format(value, format_spec) ==
  IF format_spec = ""
  THEN IF value.t = "str" THEN Ok(value.s)
       ELSE IF value.t = "int" THEN Ok(DecimalOf(value.n))
       ELSE Ok(Str(value))
  ELSE IF value.t = "int" THEN Ok(ZeroPad(DecimalOf(value.n), 3))
  ELSE Raise("FormatError")

(***************************************************************************)
(* Inputs the clients draw from.                                           *)
(***************************************************************************)
\* Param objects, by name
Params == {"root", "idx"}

Param(name) == [t |-> "Param", name |-> name]

\* str arguments of P(...) and of the / operator: "/", "a/b", "f.t"
LiteralStrs == { <<"/">>, <<"a", "/", "b">>, <<"f", ".", "t">> }

\* str arguments of with_name
Names == { <<"n">> }

\* str arguments of with_suffix: "", ".j" and "j" (not a suffix)
Suffixes == { <<>>, <<".", "j">>, <<"j">> }

\* a fragment of a t-string: a str, or an interpolation (value, format_spec)
Interpolation(value, format_spec) ==
  [t |-> "Interpolation", value |-> value, format_spec |-> format_spec]

\* t"c{7}{idx:03d}" : a static str, a non-Param interpolation, a Param one
Templates ==
  { << StrV(<<"c">>), Interpolation(IntV(7), ""), Interpolation(Param("idx"), "03d") >> }

\* the argument of resolve: None (omitted) or a dict
NoneArg == [none |-> TRUE]

BindingArgs ==
  { NoneArg,
    <<>>,
    [root |-> StrV(<<"/", "x">>)],
    [root |-> StrV(<<"f", ".", "t", ".", "g">>), idx |-> IntV(5)],
    [root |-> IntV(5), idx |-> StrV(<<"/", "x">>)] }

(***************************************************************************)
(* Expression objects.  A node of `heap` is referred to by its index; an   *)
(* object a call has built and nobody refers to yet has id 0.              *)
(***************************************************************************)
LiteralExpr(value) == [kind |-> "LiteralExpr", value |-> value]

ParamExpr(param) == [kind |-> "ParamExpr", param |-> param]

\* TemplateExpr.__post_init__: the names of the Param-valued interpolations
TemplateParams(template) ==
  { template[i].value.name : i \in
      { j \in 1..Len(template) :
          template[j].t = "Interpolation" /\ template[j].value.t = "Param" } }

TemplateExpr(template) ==
  [kind |-> "TemplateExpr", template |-> template, params |-> TemplateParams(template)]

JoinExpr(left, right) == [kind |-> "JoinExpr", left |-> left, right |-> right]

ParentExpr(child) == [kind |-> "ParentExpr", child |-> child]

WithNameExpr(base, name) == [kind |-> "WithNameExpr", base |-> base, name |-> name]

WithSuffixExpr(base, suffix) ==
  [kind |-> "WithSuffixExpr", base |-> base, suffix |-> suffix]

Ids(h) == 1..Len(h)

Obj(h, id) == [id |-> id, node |-> h[id]]
Temp(node) == [id |-> 0, node |-> node]

\* the outcome of a constructor: the heap with the operands it now refers to,
\* and the object it returns
Built(h, obj) == [exc |-> "None", heap |-> h, obj |-> obj]

\* a reference to obj is stored: a new object gets its place in the heap
Keep(h, obj) ==
  IF obj.id # 0 THEN [heap |-> h, id |-> obj.id]
  ELSE [heap |-> Append(h, obj.node), id |-> Len(h) + 1]

IsInstance(obj, kinds) == obj.node.kind \in kinds

(***************************************************************************)
(* Smart constructors.                                                     *)
(***************************************************************************)
\* faulty variant of JoinExpr.create: the Literal / Literal fold is left out
JoinExpr_create_no_fold(h, left, right) ==
  LET l == Keep(h, left)
      r == Keep(l.heap, right)
  IN  Built(r.heap, Temp(JoinExpr(l.id, r.id)))

JoinExpr_create(h, left, right) ==
  IF IsInstance(left, {"LiteralExpr"}) /\ IsInstance(right, {"LiteralExpr"})
  THEN LET p == Path(left.node.value)
           v == IF Raised(p) THEN p ELSE Truediv(p.val, right.node.value)
       IN  IF Raised(v) THEN Raise(v.exc)
           ELSE Built(h, Temp(LiteralExpr(v.val)))
  ELSE LET l == Keep(h, left)
           r == Keep(l.heap, right)
       IN  Built(r.heap, Temp(JoinExpr(l.id, r.id)))

ParentExpr_create(h, child) ==
  IF IsInstance(child, {"JoinExpr"})
     /\ IsInstance(Obj(h, child.node.right), {"LiteralExpr", "ParamExpr", "TemplateExpr"})
  THEN Built(h, Obj(h, child.node.left))
  ELSE IF IsInstance(child, {"LiteralExpr"})
  THEN LET p == Path(child.node.value)
       IN  IF Raised(p) THEN Raise(p.exc)
           ELSE Built(h, Temp(LiteralExpr(PathParent(p.val))))
  ELSE LET c == Keep(h, child)
       IN  Built(c.heap, Temp(ParentExpr(c.id)))

\* faulty variant of WithSuffixExpr.create: a WithSuffix base is wrapped as it is
WithSuffixExpr_create_no_collapse(h, base, suffix) ==
  IF IsInstance(base, {"LiteralExpr"})
  THEN LET p == Path(base.node.value)
           v == IF Raised(p) THEN p ELSE PathWithSuffix(p.val, suffix)
       IN  IF Raised(v) THEN Raise(v.exc)
           ELSE Built(h, Temp(LiteralExpr(v.val)))
  ELSE LET b == Keep(h, base)
       IN  Built(b.heap, Temp(WithSuffixExpr(b.id, suffix)))

WithSuffixExpr_create(h, base, suffix) ==
  IF IsInstance(base, {"WithSuffixExpr"})
  THEN Built(h, Temp(WithSuffixExpr(base.node.base, suffix)))
  ELSE IF IsInstance(base, {"LiteralExpr"})
  THEN LET p == Path(base.node.value)
           v == IF Raised(p) THEN p ELSE PathWithSuffix(p.val, suffix)
       IN  IF Raised(v) THEN Raise(v.exc)
           ELSE Built(h, Temp(LiteralExpr(v.val)))
  ELSE LET b == Keep(h, base)
       IN  Built(b.heap, Temp(WithSuffixExpr(b.id, suffix)))

\* a PathExpr passed as the operand of the / operator
PathExprArg(obj) == [t |-> "PathExpr", obj |-> obj]

\* PathExpr.__truediv__(self, other), other a Param, a PathExpr or a str
PathExpr_truediv(h, self, other) ==
  LET right == IF other.t = "Param" THEN Temp(ParamExpr(other))
               ELSE IF other.t = "PathExpr" THEN other.obj
               ELSE Temp(LiteralExpr(other))
  IN  JoinExpr_create(h, self, right)

\* PathExpr.__rtruediv__(self, other), other a str
PathExpr_rtruediv(h, self, other) ==
  JoinExpr_create(h, Temp(LiteralExpr(other)), self)

\* Param.__truediv__(self, other), other a Param, a PathExpr or a str
Param_truediv(h, self, other) ==
  IF other.t = "Param"
  THEN PathExpr_truediv(h, Temp(ParamExpr(self)), PathExprArg(Temp(ParamExpr(other))))
  ELSE PathExpr_truediv(h, Temp(ParamExpr(self)), other)

\* Param.__rtruediv__(self, other), other a str
Param_rtruediv(h, self, other) ==
  PathExpr_truediv(h, Temp(LiteralExpr(other)), PathExprArg(Temp(ParamExpr(self))))

(***************************************************************************)
(* required_params.                                                        *)
(***************************************************************************)
\* faulty variant of required_params: a Join asks only its left child
RECURSIVE required_params_left_only(_, _)
required_params_left_only(h, n) ==
  LET e == h[n]
  IN  CASE e.kind = "LiteralExpr" -> {}
        [] e.kind = "ParamExpr" -> {e.param.name}
        [] e.kind = "TemplateExpr" -> e.params
        [] e.kind = "JoinExpr" -> required_params_left_only(h, e.left)
        [] e.kind = "ParentExpr" -> required_params_left_only(h, e.child)
        [] e.kind = "WithNameExpr" -> required_params_left_only(h, e.base)
        [] e.kind = "WithSuffixExpr" -> required_params_left_only(h, e.base)

RECURSIVE required_params(_, _)
required_params(h, n) ==
  LET e == h[n]
  IN  CASE e.kind = "LiteralExpr" -> {}
        [] e.kind = "ParamExpr" -> {e.param.name}
        [] e.kind = "TemplateExpr" -> e.params
        [] e.kind = "JoinExpr" -> required_params(h, e.left) \cup required_params(h, e.right)
        [] e.kind = "ParentExpr" -> required_params(h, e.child)
        [] e.kind = "WithNameExpr" -> required_params(h, e.base)
        [] e.kind = "WithSuffixExpr" -> required_params(h, e.base)

(***************************************************************************)
(* resolve.  A call is a record: its bindings, its own cache (node id ->   *)
(* Path), where it stands (pc), and what it returned or raised.  `looked`  *)
(* collects the names read from the bindings, `evals` the node bodies run. *)
(***************************************************************************)
NoPath == [t |-> "None"]

NoCall ==
  [pc |-> "idle", root |-> 0, bindings |-> <<>>, cache |-> <<>>, exc |-> "None",
   ret |-> NoPath, missing |-> {}, looked |-> {}, evals |-> <<>>]

\* faulty variant of resolve: the error names only one of the missing names
resolve_begin_first_missing(h, n, arg) ==
  LET bindings == IF "none" \in DOMAIN arg \/ DOMAIN arg = {} THEN <<>> ELSE arg
      missing == required_params(h, n) \ DOMAIN bindings
  IN  IF missing # {}
      THEN [NoCall EXCEPT !.pc = "raised", !.root = n, !.bindings = bindings,
                          !.exc = "MissingBindings",
                          !.missing = {CHOOSE x \in missing : TRUE}]
      ELSE [NoCall EXCEPT !.pc = "eval", !.root = n, !.bindings = bindings]

\* faulty variant of resolve: the cache is one dict shared by all calls, so a
\* call starts with what the calls in flight have stored
resolve_begin_shared_cache(h, n, arg) ==
  LET bindings == IF "none" \in DOMAIN arg \/ DOMAIN arg = {} THEN <<>> ELSE arg
      missing == required_params(h, n) \ DOMAIN bindings
      shared == calls[1].cache @@ calls[2].cache
  IN  IF missing # {}
      THEN [NoCall EXCEPT !.pc = "raised", !.root = n, !.bindings = bindings,
                          !.exc = "MissingBindings", !.missing = missing]
      ELSE [NoCall EXCEPT !.pc = "eval", !.root = n, !.bindings = bindings,
                          !.cache = shared]

\* PathExpr.resolve up to the first _resolve: bindings or {}, the missing check
resolve_begin(h, n, arg) ==
  LET bindings == IF "none" \in DOMAIN arg \/ DOMAIN arg = {} THEN <<>> ELSE arg
      missing == required_params(h, n) \ DOMAIN bindings
  IN  IF missing # {}
      THEN [NoCall EXCEPT !.pc = "raised", !.root = n, !.bindings = bindings,
                          !.exc = "MissingBindings", !.missing = missing]
      ELSE [NoCall EXCEPT !.pc = "eval", !.root = n, !.bindings = bindings]

\* bindings[name]
Lookup(bindings, name) ==
  IF name \in DOMAIN bindings THEN Ok(bindings[name]) ELSE Raise("KeyError")

\* TemplateExpr._resolve's loop over the fragments from item i on: the parts
\* appended so far, the names read, and the exception that ended it if any
RECURSIVE TemplateParts(_, _, _, _, _)
TemplateParts(template, i, bindings, parts, looked) ==
  IF i > Len(template) THEN [exc |-> "None", parts |-> parts, looked |-> looked]
  ELSE LET item == template[i]
       IN  IF item.t = "str"
           THEN TemplateParts(template, i + 1, bindings, Append(parts, item.s), looked)
           ELSE LET isParam == item.value.t = "Param"
                    value == IF isParam THEN Lookup(bindings, item.value.name)
                             ELSE Ok(item.value)
                    seen == IF isParam THEN looked \cup {item.value.name} ELSE looked
                    part == IF Raised(value) THEN value
                            ELSE Format(value.val, item.format_spec)
                IN  IF Raised(part)
                    THEN [exc |-> part.exc, parts |-> parts, looked |-> seen]
                    ELSE TemplateParts(template, i + 1, bindings,
                                       Append(parts, part.val), seen)

\* the body of e._resolve once the children are in the cache: the value (or the
\* exception) and the names read from the bindings
EvalNode(h, n, bindings, cache) ==
  LET e == h[n]
  IN  CASE e.kind = "LiteralExpr" -> [res |-> Path(e.value), looked |-> {}]
        [] e.kind = "ParamExpr" ->
             LET v == Lookup(bindings, e.param.name)
             IN  [res |-> IF Raised(v) THEN v ELSE Path(v.val),
                  looked |-> {e.param.name}]
        [] e.kind = "TemplateExpr" ->
             LET t == TemplateParts(e.template, 1, bindings, <<>>, {})
             IN  [res |-> IF Raised(t) THEN Raise(t.exc)
                          ELSE Path(StrV(Concat(t.parts))),
                  looked |-> t.looked]
        [] e.kind = "JoinExpr" ->
             [res |-> Truediv(cache[e.left], cache[e.right]), looked |-> {}]
        [] e.kind = "ParentExpr" ->
             [res |-> Ok(PathParent(cache[e.child])), looked |-> {}]
        [] e.kind = "WithNameExpr" ->
             [res |-> PathWithName(cache[e.base], e.name), looked |-> {}]
        [] e.kind = "WithSuffixExpr" ->
             [res |-> PathWithSuffix(cache[e.base], e.suffix), looked |-> {}]

\* the node whose body the depth-first _resolve runs next: a node in the cache
\* returns at once, a node's children come before it, left before right
RECURSIVE NextNode(_, _, _)
NextNode(h, n, cache) ==
  LET e == h[n]
      kids == CASE e.kind = "JoinExpr" -> <<e.left, e.right>>
                [] e.kind = "ParentExpr" -> <<e.child>>
                [] e.kind \in {"WithNameExpr", "WithSuffixExpr"} -> <<e.base>>
                [] OTHER -> <<>>
      todo == SelectSeq(kids, LAMBDA k : k \notin DOMAIN cache)
  IN  IF todo = <<>> THEN n ELSE NextNode(h, todo[1], cache)

\* one node body of a running call: store its value, or end the call
resolve_step(h, c) ==
  LET n == NextNode(h, c.root, c.cache)
      r == EvalNode(h, n, c.bindings, c.cache)
      c1 == [c EXCEPT !.looked = c.looked \cup r.looked, !.evals = Append(c.evals, n)]
  IN  IF Raised(r.res) THEN [c1 EXCEPT !.pc = "raised", !.exc = r.res.exc]
      ELSE LET c2 == [c1 EXCEPT !.cache = (n :> r.res.val) @@ c.cache]
           IN  IF n = c.root THEN [c2 EXCEPT !.pc = "returned", !.ret = r.res.val]
               ELSE c2

\* a call run to its end
RECURSIVE resolve_run(_, _)
resolve_run(h, c) == IF c.pc = "eval" THEN resolve_run(h, resolve_step(h, c)) ELSE c

\* e.resolve(bindings)
resolve(h, n, arg) == resolve_run(h, resolve_begin(h, n, arg))

(***************************************************************************)
(* RelativePath.  base is a PathExpr or (as the tests pass it) a Param.    *)
(***************************************************************************)
RelativePath(base, relative) == [base |-> base, relative |-> relative]

\* RelativePath.expr: self.base / self.relative
RelativePath_expr(h, rp) ==
  IF rp.base.t = "Param" THEN Param_truediv(h, rp.base, rp.relative)
  ELSE PathExpr_truediv(h, rp.base.obj, rp.relative)

\* faulty variant of rebase: the arguments of RelativePath are swapped
RelativePath_rebase_swapped(rp, new_base) == RelativePath(rp.relative, new_base)

\* RelativePath.rebase
RelativePath_rebase(rp, new_base) == RelativePath(new_base, rp.relative)

\* RelativePath.resolve: self.expr.resolve(bindings), on the expression just built
RelativePath_resolve(h, rp, arg) ==
  LET e == RelativePath_expr(h, rp)
      k == Keep(e.heap, e.obj)
  IN  IF Raised(e) THEN [NoCall EXCEPT !.pc = "raised", !.exc = e.exc]
      ELSE resolve(k.heap, k.id, arg)

\* RelativePath.required_params: self.expr.required_params()
RelativePath_required_params(h, rp) ==
  LET e == RelativePath_expr(h, rp)
      k == Keep(e.heap, e.obj)
  IN  IF Raised(e) THEN Raise(e.exc) ELSE Ok(required_params(k.heap, k.id))

(***************************************************************************)
(* State.  `last` is the most recent call of the public API and its        *)
(* outcome; `calls` holds the resolve calls of the concurrent clients.     *)
(***************************************************************************)
Threads == {1, 2}

NoArg == [t |-> "None"]

NoLast ==
  [op |-> "none", self |-> 0, param |-> NoArg, other |-> NoArg, text |-> <<>>,
   exc |-> "None", ret |-> 0, params |-> {}, call |-> NoCall]

Init ==
  /\ heap = <<>>
  /\ last = NoLast
  /\ rels = <<>>
  /\ calls = [t \in Threads |-> NoCall]

\* what can stand right of the / operator
Operands(h) ==
  {Param(x) : x \in Params} \cup {StrV(x) : x \in LiteralStrs}
    \cup {PathExprArg(Obj(h, i)) : i \in Ids(h)}

\* a constructor call ends: it raised, or the client holds what it returned
Finish(cap, call, r) ==
  IF Raised(r)
  THEN /\ heap' = heap
       /\ last' = [call EXCEPT !.exc = r.exc]
  ELSE LET k == Keep(r.heap, r.obj)
       IN  /\ Len(k.heap) <= cap
           /\ heap' = k.heap
           /\ last' = [call EXCEPT !.ret = k.id]

\* P(path)
NewLiteral(cap) ==
  /\ \E s \in LiteralStrs :
       Finish(cap, [NoLast EXCEPT !.op = "P", !.text = s],
              Built(heap, Temp(LiteralExpr(StrV(s)))))
  /\ UNCHANGED <<rels, calls>>

\* ParamExpr(param)
NewParamExpr(cap) ==
  /\ \E x \in Params :
       Finish(cap, [NoLast EXCEPT !.op = "ParamExpr", !.param = Param(x)],
              Built(heap, Temp(ParamExpr(Param(x)))))
  /\ UNCHANGED <<rels, calls>>

\* T(template)
NewTemplate(cap) ==
  /\ \E tpl \in Templates :
       Finish(cap, [NoLast EXCEPT !.op = "T"],
              Built(heap, Temp(TemplateExpr(tpl))))
  /\ UNCHANGED <<rels, calls>>

\* self / other
DoTruediv(cap) ==
  /\ \E self \in Ids(heap), other \in Operands(heap) :
       Finish(cap, [NoLast EXCEPT !.op = "truediv", !.self = self, !.other = other],
              PathExpr_truediv(heap, Obj(heap, self), other))
  /\ UNCHANGED <<rels, calls>>

\* other / self, other a str
DoRTruediv(cap) ==
  /\ \E self \in Ids(heap), s \in LiteralStrs :
       Finish(cap, [NoLast EXCEPT !.op = "rtruediv", !.self = self, !.text = s],
              PathExpr_rtruediv(heap, Obj(heap, self), StrV(s)))
  /\ UNCHANGED <<rels, calls>>

\* param / other
DoParamTruediv(cap) ==
  /\ \E x \in Params, other \in Operands(heap) :
       Finish(cap, [NoLast EXCEPT !.op = "Param.truediv", !.param = Param(x),
                                  !.other = other],
              Param_truediv(heap, Param(x), other))
  /\ UNCHANGED <<rels, calls>>

\* other / param, other a str
DoParamRTruediv(cap) ==
  /\ \E x \in Params, s \in LiteralStrs :
       Finish(cap, [NoLast EXCEPT !.op = "Param.rtruediv", !.param = Param(x),
                                  !.text = s],
              Param_rtruediv(heap, Param(x), StrV(s)))
  /\ UNCHANGED <<rels, calls>>

\* self.parent
DoParent(cap) ==
  /\ \E self \in Ids(heap) :
       Finish(cap, [NoLast EXCEPT !.op = "parent", !.self = self],
              ParentExpr_create(heap, Obj(heap, self)))
  /\ UNCHANGED <<rels, calls>>

\* self.with_name(name)
DoWithName(cap) ==
  /\ \E self \in Ids(heap), name \in Names :
       Finish(cap, [NoLast EXCEPT !.op = "with_name", !.self = self, !.text = name],
              Built(heap, Temp(WithNameExpr(self, name))))
  /\ UNCHANGED <<rels, calls>>

\* self.with_suffix(suffix)
DoWithSuffix(cap) ==
  /\ \E self \in Ids(heap), suffix \in Suffixes :
       Finish(cap, [NoLast EXCEPT !.op = "with_suffix", !.self = self,
                                  !.text = suffix],
              WithSuffixExpr_create(heap, Obj(heap, self), suffix))
  /\ UNCHANGED <<rels, calls>>

\* self.required_params()
DoRequiredParams ==
  /\ \E self \in Ids(heap) :
       last' = [NoLast EXCEPT !.op = "required_params", !.self = self,
                              !.params = required_params(heap, self)]
  /\ UNCHANGED <<heap, rels, calls>>

\* self.resolve(bindings), as one call
DoResolve ==
  /\ \E self \in Ids(heap), arg \in BindingArgs :
       last' = [NoLast EXCEPT !.op = "resolve", !.self = self,
                              !.other = [t |-> "bindings", arg |-> arg],
                              !.call = resolve(heap, self, arg)]
  /\ UNCHANGED <<heap, rels, calls>>

Build(cap) ==
  \/ NewLiteral(cap)
  \/ NewParamExpr(cap)
  \/ NewTemplate(cap)
  \/ DoTruediv(cap)
  \/ DoRTruediv(cap)
  \/ DoParent(cap)
  \/ DoWithName(cap)
  \/ DoWithSuffix(cap)

Next ==
  \/ Build(MaxNodes)
  \/ DoParamTruediv(MaxNodes)
  \/ DoParamRTruediv(MaxNodes)
  \/ DoRequiredParams
  \/ DoResolve

Spec == Init /\ [][Next]_vars

(***************************************************************************)
(* A client of RelativePath.                                               *)
(***************************************************************************)
\* what can be the base of a RelativePath
Bases(h) == {Param(x) : x \in Params} \cup {PathExprArg(Obj(h, i)) : i \in Ids(h)}

\* RelativePath(base, relative)
NewRelativePath ==
  /\ Len(rels) < MaxRels
  /\ \E base \in Bases(heap), i \in Ids(heap) :
       /\ rels' = Append(rels, RelativePath(base, PathExprArg(Obj(heap, i))))
       /\ last' = [NoLast EXCEPT !.op = "RelativePath", !.other = base,
                                 !.ret = Len(rels) + 1]
  /\ UNCHANGED <<heap, calls>>

\* rels[self].rebase(new_base)
DoRebase ==
  /\ Len(rels) < MaxRels
  /\ \E self \in 1..Len(rels), new_base \in Bases(heap) :
       /\ rels' = Append(rels, RelativePath_rebase(rels[self], new_base))
       /\ last' = [NoLast EXCEPT !.op = "rebase", !.self = self,
                                 !.other = new_base, !.ret = Len(rels) + 1]
  /\ UNCHANGED <<heap, calls>>

\* rels[self].expr, kept by the client
DoExpr(cap) ==
  /\ \E self \in 1..Len(rels) :
       Finish(cap, [NoLast EXCEPT !.op = "expr", !.self = self],
              RelativePath_expr(heap, rels[self]))
  /\ UNCHANGED <<rels, calls>>

\* rels[self].resolve(bindings)
DoRelResolve ==
  /\ \E self \in 1..Len(rels), arg \in BindingArgs :
       last' = [NoLast EXCEPT !.op = "RelativePath.resolve", !.self = self,
                              !.other = [t |-> "bindings", arg |-> arg],
                              !.call = RelativePath_resolve(heap, rels[self], arg)]
  /\ UNCHANGED <<heap, rels, calls>>

\* rels[self].required_params()
DoRelRequiredParams ==
  /\ \E self \in 1..Len(rels) :
       LET r == RelativePath_required_params(heap, rels[self])
       IN  last' = [NoLast EXCEPT !.op = "RelativePath.required_params",
                                  !.self = self,
                                  !.exc = r.exc,
                                  !.params = IF Raised(r) THEN {} ELSE r.val]
  /\ UNCHANGED <<heap, rels, calls>>

NextRel ==
  \/ Build(MaxRelNodes)
  \/ NewRelativePath
  \/ DoRebase
  \/ DoExpr(MaxRelNodes)
  \/ DoRelResolve
  \/ DoRelRequiredParams

SpecRel == Init /\ [][NextRel]_vars

(***************************************************************************)
(* Clients that resolve concurrently: a thread's call advances one node    *)
(* body at a time, interleaved with the other threads' calls.              *)
(***************************************************************************)
\* thread t calls self.resolve(bindings)
Begin(t) ==
  /\ calls[t].pc # "eval"
  /\ \E self \in Ids(heap), arg \in BindingArgs :
       calls' = [calls EXCEPT ![t] = resolve_begin(heap, self, arg)]
  /\ UNCHANGED <<heap, last, rels>>

\* thread t's call runs its next node body
Step(t) ==
  /\ calls[t].pc = "eval"
  /\ calls' = [calls EXCEPT ![t] = resolve_step(heap, calls[t])]
  /\ UNCHANGED <<heap, last, rels>>

NextConc ==
  \/ Build(MaxConcNodes)
  \/ \E t \in Threads : Begin(t)
  \/ \E t \in Threads : Step(t)

SpecConc == Init /\ [][NextConc]_vars

(***************************************************************************)
(* Reference notions the properties are stated with.                       *)
(***************************************************************************)
\* keys(b) of the argument of resolve
Keys(arg) == IF "none" \in DOMAIN arg THEN {} ELSE DOMAIN arg

\* the dict a call works with
DictOf(arg) == IF Keys(arg) = {} THEN <<>> ELSE arg

Children(e) ==
  CASE e.kind = "JoinExpr" -> <<e.left, e.right>>
    [] e.kind = "ParentExpr" -> <<e.child>>
    [] e.kind \in {"WithNameExpr", "WithSuffixExpr"} -> <<e.base>>
    [] OTHER -> <<>>

\* the nodes of the tree under n
RECURSIVE Nodes(_, _)
Nodes(h, n) ==
  LET kids == Children(h[n])
  IN  {n} \cup UNION {Nodes(h, kids[i]) : i \in 1..Len(kids)}

\* the Param names that occur in the tree under n
ParamNamesIn(h, n) ==
  {h[m].param.name : m \in {k \in Nodes(h, n) : h[k].kind = "ParamExpr"}}
    \cup UNION { {h[m].template[i].value.name :
                    i \in {j \in 1..Len(h[m].template) :
                             /\ h[m].template[j].t = "Interpolation"
                             /\ h[m].template[j].value.t = "Param"}} :
                 m \in {k \in Nodes(h, n) : h[k].kind = "TemplateExpr"} }

\* the value of the tree under n with the dict b, every node evaluated afresh
\* from its children's values (no cache); the first failing child fails it
RECURSIVE Denote(_, _, _)
Denote(h, n, b) ==
  LET kids == Children(h[n])
      vals == [i \in 1..Len(kids) |-> Denote(h, kids[i], b)]
      bad == {i \in 1..Len(kids) : Raised(vals[i])}
  IN  IF bad # {} THEN Raise(vals[CHOOSE i \in bad : \A j \in bad : i <= j].exc)
      ELSE EvalNode(h, n, b, [k \in {kids[i] : i \in 1..Len(kids)} |->
                                 vals[CHOOSE i \in 1..Len(kids) : kids[i] = k].val]).res

\* the conventional join of two concrete paths: an absolute right operand
\* replaces the left one, otherwise the components are concatenated
ConventionalJoin(l, r) == IF r.root > 0 THEN r ELSE PathV(l.root, l.tail \o r.tail)

ConstructionOps ==
  {"P", "ParamExpr", "T", "truediv", "rtruediv", "Param.truediv", "Param.rtruediv",
   "parent", "with_name", "with_suffix", "required_params", "expr", "rebase",
   "RelativePath", "RelativePath.required_params"}

(***************************************************************************)
(* C1: resolve raises the missing-bindings error exactly when               *)
(* required_params() minus keys(b) is non-empty; the error carries every    *)
(* missing name and is raised before any node is evaluated.                 *)
(***************************************************************************)
C1_MissingBindingsExact ==
  last.op = "resolve" =>
    LET c == last.call
        gap == required_params(heap, last.self) \ Keys(last.other.arg)
    IN  /\ (c.exc = "MissingBindings") <=> (gap # {})
        /\ c.exc = "MissingBindings" =>
             /\ c.pc = "raised"
             /\ c.missing = gap
             /\ c.evals = <<>>
             /\ c.looked = {}
             /\ c.cache = <<>>
        /\ gap = {} => c.exc # "KeyError"

\* a call that lacks two names reports both
C1_Witness ==
  /\ last.op = "resolve"
  /\ last.call.exc = "MissingBindings"
  /\ last.call.missing = {"root", "idx"}

(***************************************************************************)
(* C2: required_params() is exactly the set of Param names occurring in the *)
(* tree, and every name a call reads from the bindings is one of them.      *)
(***************************************************************************)
C2_RequiredParamsExact ==
  /\ \A n \in Ids(heap) : required_params(heap, n) = ParamNamesIn(heap, n)
  /\ last.op = "required_params" => last.params = ParamNamesIn(heap, last.self)
  /\ last.op = "resolve" =>
       /\ last.call.looked \subseteq required_params(heap, last.self)
       /\ last.call.exc # "KeyError"

\* a returned call over a Join that read a ParamExpr's and a Template's name
C2_Witness ==
  /\ last.op = "resolve"
  /\ last.call.pc = "returned"
  /\ heap[last.self].kind = "JoinExpr"
  /\ last.call.looked = {"root", "idx"}
  /\ required_params(heap, last.self) = {"root", "idx"}

(***************************************************************************)
(* C3: joining two Literals yields a Literal holding the conventional join  *)
(* of the two values, and resolving it gives what joining the resolved      *)
(* operands gives.                                                          *)
(***************************************************************************)
\* the operands of the last / as JoinExpr.create received them
JoinLeft ==
  IF last.op = "truediv" THEN heap[last.self] ELSE LiteralExpr(StrV(last.text))

JoinRight ==
  IF last.op = "rtruediv" THEN heap[last.self]
  ELSE IF last.other.t = "Param" THEN ParamExpr(last.other)
  ELSE IF last.other.t = "PathExpr" THEN last.other.obj.node
  ELSE LiteralExpr(last.other)

LiteralJoin ==
  /\ last.op \in {"truediv", "rtruediv"}
  /\ JoinLeft.kind = "LiteralExpr"
  /\ JoinRight.kind = "LiteralExpr"

\* what a Literal operand resolves to
LiteralPath(e) == EvalNode(<<e>>, 1, <<>>, <<>>).res.val

C3_LiteralFolding ==
  LiteralJoin =>
    /\ last.exc = "None"
    /\ heap[last.ret].kind = "LiteralExpr"
    /\ LET l == LiteralPath(JoinLeft)
           r == LiteralPath(JoinRight)
           c == resolve(heap, last.ret, <<>>)
       IN  /\ c.pc = "returned"
           /\ c.ret = ConventionalJoin(l, r)
           /\ c.ret = Truediv(l, r).val
           /\ Path(heap[last.ret].value) = Ok(ConventionalJoin(l, r))

\* a chain of /: a folded Literal (holding a Path) joined with a relative str
C3_Witness ==
  /\ LiteralJoin
  /\ last.op = "truediv"
  /\ heap[last.self].value.t = "Path"
  /\ last.other.t = "str"
  /\ heap[last.ret].kind = "LiteralExpr"
  /\ Len(heap[last.ret].value.tail) >= 3

(***************************************************************************)
(* C5: construction-time operations (the / operator, .parent, .with_name,   *)
(* .with_suffix, the constructors, required_params) never raise.            *)
(***************************************************************************)
C5_ConstructionTotal == last.op \in ConstructionOps => last.exc = "None"

(***************************************************************************)
(* C6: resolve returns a path, raises the missing-bindings error, or raises *)
(* a formatting failure from a Template interpolation; nothing else.        *)
(***************************************************************************)
C6_TwoFailureKinds ==
  last.op = "resolve" => last.call.exc \in {"None", "MissingBindings", "FormatError"}

(***************************************************************************)
(* C8: e.parent.resolve(b) equals the parent of e.resolve(b), for every b   *)
(* covering e's required parameters.                                        *)
(***************************************************************************)
C8_ParentPreservesMeaning ==
  (last.op = "parent" /\ last.exc = "None") =>
    \A arg \in BindingArgs :
      LET e == resolve(heap, last.self, arg)
          p == resolve(heap, last.ret, arg)
      IN  e.pc = "returned" => (p.pc = "returned" /\ p.ret = PathParent(e.ret))

(***************************************************************************)
(* C9: e.with_suffix(s1).with_suffix(s2) resolves to the path obtained by   *)
(* replacing the suffix of e.resolve(b) with s1 and then with s2.           *)
(***************************************************************************)
C9_SuffixChainPreservesMeaning ==
  (last.op = "with_suffix" /\ last.exc = "None"
     /\ heap[last.self].kind = "WithSuffixExpr") =>
    \A arg \in BindingArgs :
      LET e == resolve(heap, heap[last.self].base, arg)
          one == PathWithSuffix(e.ret, heap[last.self].suffix)
          two == PathWithSuffix(one.val, last.text)
          c == resolve(heap, last.ret, arg)
      IN  (e.pc = "returned" /\ ~Raised(one) /\ ~Raised(two)) =>
            (c.pc = "returned" /\ c.ret = two.val)

(***************************************************************************)
(* C10: every tree built with the public operations is in canonical form:   *)
(* no Join of two Literals, no Parent of a Literal or of a Join whose right *)
(* child is a Literal, ParamRef or Template, no WithSuffix of a WithSuffix  *)
(* or of a Literal.                                                         *)
(***************************************************************************)
Atomic == {"LiteralExpr", "ParamExpr", "TemplateExpr"}

Canonical(h) ==
  \A n \in Ids(h) :
    LET e == h[n]
    IN  /\ \A i \in 1..Len(Children(e)) : Children(e)[i] \in 1..(n - 1)
        /\ e.kind = "JoinExpr" =>
             ~(h[e.left].kind = "LiteralExpr" /\ h[e.right].kind = "LiteralExpr")
        /\ e.kind = "ParentExpr" =>
             /\ h[e.child].kind # "LiteralExpr"
             /\ ~(h[e.child].kind = "JoinExpr" /\ h[h[e.child].right].kind \in Atomic)
        /\ e.kind = "WithSuffixExpr" =>
             h[e.base].kind \notin {"WithSuffixExpr", "LiteralExpr"}

C10_CanonicalForm ==
  /\ Canonical(heap)
  /\ \A base \in Bases(heap), i \in Ids(heap) :
       LET rp == RelativePath_rebase(RelativePath(Param("root"), PathExprArg(Obj(heap, i))),
                                     base)
           r == RelativePath_expr(heap, rp)
       IN  ~Raised(r) /\ Canonical(Keep(r.heap, r.obj).heap)

\* with_suffix on a WithSuffix returned a new WithSuffix over the inner base
C10_Witness ==
  /\ last.op = "with_suffix"
  /\ heap[last.self].kind = "WithSuffixExpr"
  /\ heap[last.ret].kind = "WithSuffixExpr"
  /\ last.ret # last.self
  /\ heap[last.ret].base = heap[last.self].base
  /\ heap[last.ret].suffix # heap[last.self].suffix

(***************************************************************************)
(* C4: rp.rebase(nb) returns a new RelativePath with base nb and rp's own   *)
(* relative part, leaving rp as it was; the rebased path resolves to the    *)
(* join of resolved nb and the resolved relative part and requires exactly  *)
(* the parameters of nb and of the relative part.                           *)
(***************************************************************************)
\* the value and the parameters of a base (a Param stands for its ParamExpr)
BaseValue(h, base, b) ==
  IF base.t = "Param" THEN Denote(Append(h, ParamExpr(base)), Len(h) + 1, b)
  ELSE Denote(h, base.obj.id, b)

BaseParams(h, base) ==
  IF base.t = "Param" THEN {base.name} ELSE required_params(h, base.obj.id)

\* what a caller sees of rp.resolve(arg)
RelOutcome(h, rp, arg) ==
  LET c == RelativePath_resolve(h, rp, arg)
  IN  [pc |-> c.pc, exc |-> c.exc, ret |-> c.ret, missing |-> c.missing]

C4_Rebased ==
  last.op = "rebase" =>
    LET rp == rels[last.self]
        nrp == rels[last.ret]
        nb == last.other
        rel == rp.relative.obj.id
        need == BaseParams(heap, nb) \cup required_params(heap, rel)
    IN  /\ last.ret # last.self
        /\ nrp.base = nb
        /\ nrp.relative = rp.relative
        /\ RelativePath_required_params(heap, nrp) = Ok(need)
        /\ \A arg \in BindingArgs :
             LET c == RelativePath_resolve(heap, nrp, arg)
                 a == BaseValue(heap, nb, DictOf(arg))
                 r == Denote(heap, rel, DictOf(arg))
             IN  /\ (c.exc = "MissingBindings") <=> ~(need \subseteq Keys(arg))
                 /\ need \subseteq Keys(arg) =>
                      /\ (~Raised(a) /\ ~Raised(r)) =>
                           (c.pc = "returned" /\ c.ret = ConventionalJoin(a.val, r.val))
                      /\ c.pc = "returned" => (~Raised(a) /\ ~Raised(r))

\* no step changes a RelativePath that exists, nor what it resolves to
C4_Frame ==
  \/ (heap' = heap /\ rels' = rels)
  \/ \A i \in 1..Len(rels) :
       /\ i <= Len(rels')
       /\ rels'[i] = rels[i]
       /\ \A arg \in BindingArgs :
            RelOutcome(heap', rels'[i], arg) = RelOutcome(heap, rels[i], arg)

C4_RebasePreservesRelative == [](C4_Rebased) /\ [][C4_Frame]_vars

\* as in the tests: a path relative to a Param rebased onto a Literal, which
\* then requires nothing while the original still requires the Param
C4_Witness ==
  /\ last.op = "rebase"
  /\ rels[last.self].base = Param("root")
  /\ last.other.t = "PathExpr"
  /\ last.other.obj.node.kind = "LiteralExpr"
  /\ rels[last.ret].relative.obj.node.kind = "LiteralExpr"
  /\ RelativePath_required_params(heap, rels[last.ret]) = Ok({})
  /\ RelativePath_required_params(heap, rels[last.self]) = Ok({"root"})

(***************************************************************************)
(* C7: every resolve call works on a cache of its own: whatever the         *)
(* interleaving, each value a call has memoized and the value it returns    *)
(* are those of the tree under the call's own bindings, and a node's body   *)
(* runs at most once per call.                                              *)
(***************************************************************************)
C7_CallsIsolated ==
  \A t \in Threads :
    LET c == calls[t]
    IN  c.pc # "idle" =>
          /\ \A n \in DOMAIN c.cache : Denote(heap, n, c.bindings) = Ok(c.cache[n])
          /\ c.pc = "returned" => Denote(heap, c.root, c.bindings) = Ok(c.ret)
          /\ (c.pc = "raised" /\ c.exc # "MissingBindings") =>
               Denote(heap, c.root, c.bindings) = Raise(c.exc)
          /\ (c.pc = "raised" /\ c.exc = "MissingBindings") => c.cache = <<>>
          /\ \A i, j \in 1..Len(c.evals) : c.evals[i] = c.evals[j] => i = j
          /\ DOMAIN c.cache \subseteq {c.evals[i] : i \in 1..Len(c.evals)}
          /\ \A u \in Threads :
               (calls[u].pc = "returned" /\ c.pc = "returned" /\ calls[u].root = c.root
                  /\ calls[u].bindings = c.bindings) => calls[u].ret = c.ret

\* two calls on one tree that uses the same sub-expression object twice, with
\* different bindings: one has returned while the other is still running with
\* the shared node in its cache, and the two values of that node differ
C7_Witness ==
  /\ calls[1].pc = "returned"
  /\ calls[2].pc = "eval"
  /\ calls[1].root = calls[2].root
  /\ heap[calls[1].root].kind = "JoinExpr"
  /\ heap[calls[1].root].left = heap[calls[1].root].right
  /\ calls[1].bindings # calls[2].bindings
  /\ heap[calls[1].root].left \in DOMAIN calls[2].cache
  /\ calls[2].cache[heap[calls[1].root].left] # calls[1].cache[heap[calls[1].root].left]

====
